---- MODULE Spec2Model ----
(***************************************************************************)
(* Model of the LuxMed appointment hunter: the due-request scan of         *)
(* utils/db.py, the per-request check/lock/reserve cycle of                *)
(* LuxmedAppointmentHunter.hunt_appointments, the polling loop of          *)
(* run_scheduler and the client-side term filter of                        *)
(* LuxmedApi._parse_visits.                                                *)
(*                                                                         *)
(* Spec is the scheduler alone, its tokens outliving the run.  SpecTokens  *)
(* has tokens that expire and notifications on or off, SpecKill has the    *)
(* process killed and started again, SpecCreate has the operator creating  *)
(* an appointment, SpecLive has the scheduler left running on a clock      *)
(* without end, with fairness.                                             *)
(*                                                                         *)
(* Time.  `now` is the wall clock in ticks, TicksPerSec ticks to a second, *)
(* so that int(datetime.timestamp()) truncates and the float comparison of *)
(* the scan is strict.  Calendar values (slot start, start_date, today)    *)
(* are records [day, hour]; "today" is drawn when the search runs.         *)
(***************************************************************************)
EXTENDS Integers, Sequences, FiniteSets, TLC

VARIABLES
    table,         \* appointments_table: id -> persisted Appointment
    credentials,   \* luxmed_credentials_table: the e-mails that have a row
    portal,        \* the terms the portal has on offer
    sessions,      \* LuxmedAppointmentHunter.sessions: cached account e-mails
    now,           \* wall clock, in ticks
    pc,            \* position inside hunt_appointments
    appointments,  \* result of get_appointments_to_check() of this batch
    i,             \* number of entries of `appointments` the loop has taken
    appointment,   \* loop variable: the in-memory Appointment of the cycle
    visits,        \* the portal's answer to the search, until `terms` is branched on
    terms,         \* local `terms` of the cycle, until terms[0] is taken
    term,          \* local `term` of the cycle
    lock,          \* local `lock` of the cycle
    today,         \* datetime.today() as read by the search, kept as long as `visits`
    log,           \* what the cycle did: portal calls, notification, errors
    interval,      \* --delay of hunter.py in seconds, None when not given
    next_run,      \* next_run of the scheduled job, in ticks
    logins,        \* history: per account, the LuxmedApi objects constructed
    attempted,     \* history: the ids the loop of this batch has taken
    checked,       \* history: per request, the clock of its last check
    booked,        \* history: per request, the reservations the portal made
    tokens,        \* per account, token_expiration of its LuxmedApi, in ticks
    ttl,           \* the lifetime of the tokens the portal issues, in ticks
    enable,        \* config['notifications']['mail']['enable']
    restarts       \* the times the process was killed and started again

vars == << table, credentials, portal, sessions, now, pc, appointments, i,
           appointment, visits, terms, term, lock, today, log, interval,
           next_run, logins, attempted, checked, booked, tokens, ttl,
           enable, restarts >>

(***************************************************************************)
(* Bounds of the model.                                                    *)
(***************************************************************************)
TicksPerSec == 2
MaxNow == 6
MaxTerms == 2
MaxRows == 2
MaxRestarts == 1

(***************************************************************************)
(* models.py                                                               *)
(***************************************************************************)
active == 1
reserved == 2
error == 99
default_lookup_time_days == 14

None == 0 - 1                  \* an unset Optional[str]/Optional[int]
Null == [null |-> TRUE]        \* an unset Optional[Dict] (term), no object

DateTime(d, h) == [day |-> d, hour |-> h]

\* a < b on datetimes
Before(a, b) == a.day < b.day \/ (a.day = b.day /\ a.hour < b.hour)

\* dt + timedelta(days = n)
PlusDays(dt, n) == [dt EXCEPT !.day = @ + n]

AppointmentQuery(fac, docs, black, start, after, before, lookup) ==
    [ facilities_ids |-> fac, doctor_ids |-> docs,
      doctor_blacklist_ids |-> black, start_date |-> start,
      after_hour |-> after, before_hour |-> before,
      lookup_time_days |-> lookup ]

Appointment(id, email, query, freq, allow) ==
    [ id |-> id, status |-> active, account_email |-> email, query |-> query,
      comment |-> "c", next_check |-> 0, check_frequency |-> freq,
      allow_rescheduling |-> allow, term |-> Null ]

(***************************************************************************)
(* The portal's terms and the requests the model runs on.                  *)
(***************************************************************************)
Term(doc, clinic, d, h) ==
    [ doctorId |-> doc, clinicGroupId |-> clinic, dateTimeFrom |-> DateTime(d, h) ]

\* today is day 10; the default window is day 10 .. day 24
Todays == { DateTime(10, 9), DateTime(10, 12) }

PlainTerms == { Term(1, 1, 11, 10), Term(1, 1, 12, 10) }

RichTerms ==
    { Term(1, 1, 15, 10),     \* D+5
      Term(2, 1, 11, 10),     \* another doctor, earlier
      Term(1, 2, 12, 10),     \* another facility, earlier
      Term(1, 1, 9, 10),      \* before today
      Term(1, 1, 10, 10),     \* today, between the two readings of the clock
      Term(1, 1, 30, 10),     \* D+20
      Term(1, 1, 24, 10),     \* D+14
      Term(1, 1, 13, 7),      \* early in the morning
      Term(1, 1, 13, 8),
      Term(1, 1, 14, 18),
      Term(1, 1, 13, 19) }    \* late in the evening

PlainQuery == AppointmentQuery({}, {}, {}, None, None, None, default_lookup_time_days)

Queries ==
    { PlainQuery,
      AppointmentQuery({}, {}, {2}, None, None, None, default_lookup_time_days),
      AppointmentQuery({}, {1}, {}, None, None, None, default_lookup_time_days),
      AppointmentQuery({1}, {}, {}, None, None, None, default_lookup_time_days),
      AppointmentQuery({}, {}, {}, None, 8, 18, default_lookup_time_days),
      AppointmentQuery({}, {}, {}, 12, None, None, 2),
      AppointmentQuery({1}, {1, 2}, {2}, 10, 8, 18, default_lookup_time_days) }

Accounts == { "a1", "a2" }

\* injective sequences over S of length at most n
RECURSIVE Lists(_, _)
Lists(S, n) ==
    IF n = 0 THEN { <<>> }
    ELSE LET shorter == Lists(S, n - 1)
         IN  shorter \cup
             { Append(s, x) : s \in { t \in shorter : Len(t) = n - 1 },
                              x \in S }

Range(s) == { s[k] : k \in 1..Len(s) }

Distinct(s) == Cardinality(Range(s)) = Len(s)

Responses == { s \in Lists(portal, MaxTerms) : Distinct(s) }

\* relatedVisits of a lock, as the reservation ids of the visits
RelatedVisits == { <<>>, <<1>>, <<2, 1>> }

\* the locals of hunt_appointments before they are assigned
NoLock == [ relatedVisits |-> <<>>, temporaryReservationId |-> 0 ]
NoAppointment == Appointment(0, "", PlainQuery, 0, FALSE)

\* hunter.py --delay: not given, or a number of seconds
Intervals == { None, 1, 2 }
NoDate == DateTime(0, 0)
NoTerm == Term(0, 0, 0, 0)

(***************************************************************************)
(* utils/luxmedapi.py                                                      *)
(***************************************************************************)
\* Passes without the blacklist check of lines 114-115
Passes_no_blacklist(t, clinic_ids, doctor_ids, doctor_blacklist_ids, date_from, date_to, before_hour, after_hour) ==
    /\ ~ (doctor_ids # {} /\ t.doctorId \notin doctor_ids)
    /\ ~ (clinic_ids # {} /\ t.clinicGroupId \notin clinic_ids)
    /\ ~ Before(t.dateTimeFrom, date_from)
    /\ ~ Before(date_to, t.dateTimeFrom)
    /\ ~ (before_hour # None /\ t.dateTimeFrom.hour > before_hour)
    /\ ~ (after_hour # None /\ t.dateTimeFrom.hour < after_hour)

\* Passes without the date_to check of lines 120-121
Passes_no_date_to(t, clinic_ids, doctor_ids, doctor_blacklist_ids, date_from, date_to, before_hour, after_hour) ==
    /\ ~ (doctor_ids # {} /\ t.doctorId \notin doctor_ids)
    /\ ~ (doctor_blacklist_ids # {} /\ t.doctorId \in doctor_blacklist_ids)
    /\ ~ (clinic_ids # {} /\ t.clinicGroupId \notin clinic_ids)
    /\ ~ Before(t.dateTimeFrom, date_from)
    /\ ~ (before_hour # None /\ t.dateTimeFrom.hour > before_hour)
    /\ ~ (after_hour # None /\ t.dateTimeFrom.hour < after_hour)

\* _parse_visits, lines 112-125: a term is kept when no check skips it
Passes(t, clinic_ids, doctor_ids, doctor_blacklist_ids, date_from, date_to, before_hour, after_hour) ==
    /\ ~ (doctor_ids # {} /\ t.doctorId \notin doctor_ids)
    /\ ~ (doctor_blacklist_ids # {} /\ t.doctorId \in doctor_blacklist_ids)
    /\ ~ (clinic_ids # {} /\ t.clinicGroupId \notin clinic_ids)
    /\ ~ Before(t.dateTimeFrom, date_from)
    /\ ~ Before(date_to, t.dateTimeFrom)
    /\ ~ (before_hour # None /\ t.dateTimeFrom.hour > before_hour)
    /\ ~ (after_hour # None /\ t.dateTimeFrom.hour < after_hour)

\* _parse_visits: the terms of the response that pass, in the order of the
\* response
_parse_visits(data, clinic_ids, doctor_ids, doctor_blacklist_ids, date_from, date_to, before_hour, after_hour) ==
    LET Keep(t) == Passes(t, clinic_ids, doctor_ids, doctor_blacklist_ids,
                          date_from, date_to, before_hour, after_hour)
    IN  SelectSeq(data, Keep)

\* get_appointments_terms, given the portal's answer
get_appointments_terms(answer, facilities_ids, doctor_ids, doctor_blacklist_ids, start_date, lookup_days, before_hour, after_hour) ==
    LET date_from == start_date
        date_to == PlusDays(date_from, lookup_days)
    IN  _parse_visits(answer, facilities_ids, doctor_ids, doctor_blacklist_ids,
                      date_from, date_to, before_hour, after_hour)

\* ExistingReservation taking the last related visit
ExistingReservation_last(l) == l.relatedVisits[Len(l.relatedVisits)]

\* change_reservation, lines 244-249: the reservation that is moved
ExistingReservation(l) == l.relatedVisits[1]

(***************************************************************************)
(* utils/appointmentshunter.py                                             *)
(***************************************************************************)
\* the start_date argument _get_appointments_terms passes on
DateFrom(params, td) ==
    IF params.start_date # None THEN DateTime(params.start_date, 0) ELSE td

_get_appointments_terms(answer, params, td) ==
    get_appointments_terms(answer, params.facilities_ids, params.doctor_ids,
                           params.doctor_blacklist_ids, DateFrom(params, td),
                           params.lookup_time_days, params.before_hour,
                           params.after_hour)

\* json.loads(json.dumps(term, default=str)): the datetime becomes its str()
Snapshot(t) == [t EXCEPT !.dateTimeFrom = [str |-> @]]

\* line 81
FirstTerm(ts) == ts[1]

\* MarkedError without the assignment of line 92
MarkedError_keeps_next_check(a) == [a EXCEPT !.status = error]

\* lines 91-92
MarkedError(a) == [a EXCEPT !.status = error, !.next_check = 0]

\* lines 100-103 without line 100: the status is left as it was
MarkedReserved_same_status(a, t) == [a EXCEPT !.next_check = 0, !.term = Snapshot(t)]

\* MarkedReserved without the assignment of line 102
MarkedReserved_no_term(a, t) ==
    [a EXCEPT !.status = reserved, !.next_check = 0]

\* lines 100-102
MarkedReserved(a, t) ==
    [a EXCEPT !.status = reserved, !.next_check = 0, !.term = Snapshot(t)]

\* Postponed without the timedelta of line 114
Postponed_no_frequency(a, clock) ==
    [a EXCEPT !.next_check = clock \div TicksPerSec]

\* lines 114-115: int((datetime.now() + timedelta(seconds)).timestamp())
Postponed(a, clock) ==
    [a EXCEPT !.next_check = (clock + a.check_frequency * TicksPerSec)
                                 \div TicksPerSec]


(***************************************************************************)
(* utils/db.py                                                             *)
(***************************************************************************)
\* IsDue with the comparison the other way round
IsDue_not_yet(row, clock) ==
    /\ row.status # reserved
    /\ row.next_check * TicksPerSec > clock

\* IsDue without the test on the status
IsDue_any_status(row, clock) ==
    row.next_check * TicksPerSec < clock

\* the rows the query of get_appointments_to_check matches
IsDue(row, clock) ==
    /\ row.status # reserved
    /\ row.next_check * TicksPerSec < clock

\* rows come back in the order of insertion; ids number the rows in that order
RECURSIVE InOrder(_)
InOrder(S) ==
    IF S = {} THEN <<>>
    ELSE LET x == CHOOSE y \in S : \A z \in S : y.id <= z.id
         IN  <<x>> \o InOrder(S \ {x})

Ids == DOMAIN table

\* the scan without its query: every row of the table
get_appointments_to_check_all ==
    InOrder({ table[id] : id \in Ids })

get_appointments_to_check ==
    InOrder({ table[id] : id \in { k \in Ids : IsDue(table[k], now) } })

\* the update without its query: every row is written
update_appointment_every(id, a) == [ k \in Ids |-> a ]

\* lines 38-41: the rows with this id are written with the dump of `a`
update_appointment(id, a) ==
    IF id \in Ids THEN [table EXCEPT ![id] = a] ELSE table

(***************************************************************************)
(* The record of what a cycle did.                                         *)
(***************************************************************************)
Event(op, t, existing, ok) ==
    [ op |-> op, id |-> appointment.id, term |-> t, existing |-> existing,
      ok |-> ok ]

(***************************************************************************)
(* Control flow of hunt_appointments and run_scheduler.                    *)
(***************************************************************************)
\* an exception of a cycle leaves the loop
Raised_out == "idle"

\* lines 118-120: an exception of a cycle is logged and the loop goes on
Raised == "loop"

\* the loop is left after its first appointment
Exhausted_after_first(k, batch) == k >= 1 \/ k = Len(batch)

\* line 73: the for loop has taken every appointment of the batch
Exhausted(k, batch) == k = Len(batch)

\* any related visit counts as a violation
PolicyViolation_any_related(l, a) == Len(l.relatedVisits) > 0

\* lines 87-89: a related visit and no permission to move it
PolicyViolation(l, a) == Len(l.relatedVisits) > 0 /\ ~ a.allow_rescheduling

\* the notification goes out before the row is written
Confirmed_unsaved(ok) == IF ok THEN "notify" ELSE Raised

\* the answer of the portal is taken for a reservation whatever it says
Confirmed_unchecked(ok) == "reserved"

\* lines 96-100: change_reservation and create_reservation raise unless the
\* portal has made the reservation
Confirmed(ok) == IF ok THEN "reserved" ELSE Raised

\* the answer of the portal is taken for a lock whatever it says
LockResult_unchecked(ok) == "related"

\* luxmedapi.py lines 205-217: create_reservation_lock_term raises unless
\* the portal has locked the term
LockResult(ok) == IF ok THEN "related" ELSE Raised

\* only a second related visit counts
HasRelated_second(l) == Len(l.relatedVisits) > 1

\* line 87: len(related_visits)
HasRelated(l) == Len(l.relatedVisits) > 0

\* a failing send leaves the loop
Notified_out(ok) == IF ok THEN "loop" ELSE "idle"

\* lines 105-108 and 118-120: the send returns, or raises into the handler
\* of the cycle
Notified(ok) == IF ok THEN "loop" ELSE Raised

\* the expiry of the token is not looked at
TokenValid_always(exp, clock) == TRUE

\* luxmedapi.py line 82: the token is there and now is before its expiry
TokenValid(exp, clock) == exp # None /\ clock < exp

\* luxmedapi.py lines 57-66: the expiry of a token issued at the clock; an
\* expiry past the last tick of the clock is kept as the first tick past it
Expiry(clock) == IF clock + ttl > MaxNow THEN MaxNow + 1 ELSE clock + ttl

\* hunt_appointments has returned to main, which ends
Resumed_returns == "done"

\* hunt_appointments has returned: run_scheduler goes on polling, main
\* without --delay ends
Resumed == IF interval = None THEN "done" ELSE "idle"

\* the cache is never found to hold a session
HasSession_never(cache, email) == FALSE

\* line 58: account_email in self.sessions
HasSession(cache, email) == email \in cache

\* the session is cached whether or not it could be created
WithSession_always(cache, email, good) == cache \cup {email}

\* lines 59-63: the cache gets the session once LuxmedApi(...) has returned
WithSession(cache, email, good) ==
    IF good THEN cache \cup {email} ELSE cache

\* schedule.every(interval).seconds: the job runs next a period after it
\* was scheduled or has run
NextRun(clock) ==
    IF interval = None THEN next_run ELSE clock + interval * TicksPerSec

\* the job runs whenever it is due
Pending_overdue == pc = "start" \/ now >= next_run

\* line 127, and run_pending of line 130: hunt_appointments is to be called
Pending == pc = "start" \/ (pc = "idle" /\ now >= next_run)

(***************************************************************************)
(* Initial states: two plain requests against a plain offer, or one        *)
(* request with a filtering query against a mixed offer.                   *)
(***************************************************************************)
InitLocals ==
    /\ sessions = {}
    /\ now = TicksPerSec
    /\ pc = "start"
    /\ interval \in Intervals
    /\ next_run = 0
    /\ logins = [ email \in Accounts |-> 0 ]
    /\ attempted = <<>>
    /\ checked = [ id \in Ids |-> None ]
    /\ booked = [ id \in Ids |-> 0 ]
    /\ tokens = [ email \in Accounts |-> None ]
    /\ restarts = 0
    /\ appointments = <<>>
    /\ i = 0
    /\ appointment = NoAppointment
    /\ visits = <<>>
    /\ terms = <<>>
    /\ term = NoTerm
    /\ lock = NoLock
    /\ today = NoDate
    /\ log = <<>>

InitPlain ==
    /\ \E email \in Accounts, allow1, allow2 \in BOOLEAN :
          table = [ id \in {1, 2} |->
                      IF id = 1
                      THEN Appointment(1, "a1", PlainQuery, 1, allow1)
                      ELSE Appointment(2, email, PlainQuery, 2, allow2) ]
    /\ credentials \in { Accounts, {"a1"} }
    /\ portal = PlainTerms

InitRich ==
    /\ \E query \in Queries, allow \in BOOLEAN :
          table = [ id \in {1} |-> Appointment(1, "a1", query, 1, allow) ]
    /\ credentials = Accounts
    /\ portal = RichTerms

\* notifications are on and the tokens outlive the run
InitConfig == enable = TRUE /\ ttl = MaxNow

Init == (InitPlain \/ InitRich) /\ InitLocals /\ InitConfig

(***************************************************************************)
(* hunt_appointments                                                       *)
(***************************************************************************)
\* line 70: the due scan opens a batch
Scan ==
    /\ Pending
    /\ appointments' = get_appointments_to_check
    /\ i' = 0
    /\ log' = <<>>
    /\ pc' = "loop"
    /\ UNCHANGED << table, credentials, portal, sessions, now, appointment,
                    visits, terms, term, lock, today, interval, next_run,
                    logins, attempted, checked,
                    booked, tokens, ttl, enable, restarts >>

\* lines 70 and 121-123: the due scan raises (the table cannot be read, a
\* row is not an Appointment); the exception is logged and
\* hunt_appointments returns
ScanFails ==
    /\ Pending
    /\ log' = << Event("scan", NoTerm, 0, FALSE) >>
    /\ pc' = Resumed
    /\ next_run' = NextRun(now)
    /\ UNCHANGED << table, credentials, portal, sessions, now, appointments,
                    i, appointment, visits, terms, term, lock, today,
                    interval,
                    logins, attempted, checked,
                    booked, tokens, ttl, enable, restarts >>

\* line 73: the loop takes the next appointment of the batch
LoopNext ==
    /\ pc = "loop"
    /\ ~ Exhausted(i, appointments)
    /\ i' = i + 1
    /\ appointment' = appointments[i + 1]
    /\ attempted' = Append(attempted, appointment'.id)
    /\ visits' = <<>>
    /\ terms' = <<>>
    /\ term' = NoTerm
    /\ lock' = NoLock
    /\ today' = NoDate
    /\ log' = <<>>
    /\ pc' = "session"
    /\ UNCHANGED << table, credentials, portal, sessions, now, appointments,
                    interval, next_run,
                    logins, checked,
                    booked, tokens, ttl, enable, restarts >>

\* line 73: the batch is exhausted, hunt_appointments returns and its locals
\* are gone
LoopEnd ==
    /\ pc = "loop"
    /\ Exhausted(i, appointments)
    /\ pc' = Resumed
    /\ next_run' = NextRun(now)
    /\ attempted' = <<>>
    /\ appointments' = <<>>
    /\ i' = 0
    /\ appointment' = NoAppointment
    /\ visits' = <<>>
    /\ terms' = <<>>
    /\ term' = NoTerm
    /\ lock' = NoLock
    /\ today' = NoDate
    /\ log' = <<>>
    /\ UNCHANGED << table, credentials, portal, sessions, now,
                    interval,
                    logins, checked,
                    booked, tokens, ttl, enable, restarts >>

\* lines 57-65: _get_session finds the cached session
SessionCached ==
    /\ pc = "session"
    /\ HasSession(sessions, appointment.account_email)
    /\ pc' = "terms"
    /\ UNCHANGED << table, credentials, portal, sessions, now, appointments,
                    i, appointment, visits, terms, term, lock, today, log,
                    interval, next_run,
                    logins, attempted, checked,
                    booked, tokens, ttl, enable, restarts >>

\* lines 57-65: _get_session creates a session; no credentials or a failed
\* login raises and ends the cycle
SessionCreate ==
    /\ pc = "session"
    /\ ~ HasSession(sessions, appointment.account_email)
    /\ \E ok \in BOOLEAN :
          LET found == appointment.account_email \in credentials
              good == found /\ ok
          IN  /\ sessions' = WithSession(sessions, appointment.account_email, good)
              /\ logins' = IF good
                           THEN [logins EXCEPT ![appointment.account_email] = @ + 1]
                           ELSE logins
              /\ checked' = IF found THEN [checked EXCEPT ![appointment.id] = now]
                            ELSE checked
              /\ tokens' = IF good
                           THEN [tokens EXCEPT ![appointment.account_email] = Expiry(now)]
                           ELSE tokens
              /\ log' = IF found THEN Append(log, Event("login", NoTerm, 0, ok))
                        ELSE log
              /\ pc' = IF good THEN "terms" ELSE Raised
    /\ UNCHANGED << table, credentials, portal, now, appointments, i,
                    appointment, visits, terms, term, lock, today,
                    interval, next_run,
                    attempted,
                    booked, ttl, enable, restarts >>

\* line 77: the search; a transport error or a provider error list raises
GetTerms ==
    /\ pc = "terms"
    /\ TokenValid(tokens[appointment.account_email], now)
    /\ checked' = [checked EXCEPT ![appointment.id] = now]
    /\ \/ /\ log' = Append(log, Event("search", NoTerm, 0, FALSE))
          /\ pc' = Raised
          /\ UNCHANGED << visits, terms, today >>
       \/ \E td \in Todays, answer \in Responses :
             /\ log' = Append(log, Event("search", NoTerm, 0, TRUE))
             /\ today' = td
             /\ visits' = answer
             /\ terms' = _get_appointments_terms(answer, appointment.query, td)
             /\ pc' = IF terms' # <<>> THEN "lock" ELSE "noterms"
    /\ UNCHANGED << table, credentials, portal, sessions, now, appointments,
                    i, appointment, term, lock,
                    interval, next_run,
                    logins, attempted,
                    booked, tokens, ttl, enable, restarts >>

\* lines 113-117: nothing found, the next check is put off
NoTerms ==
    /\ pc = "noterms"
    /\ appointment' = Postponed(appointment, now)
    /\ table' = update_appointment(appointment.id, appointment')
    /\ visits' = <<>>
    /\ today' = NoDate
    /\ pc' = "loop"
    /\ UNCHANGED << credentials, portal, sessions, now, appointments, i,
                    terms, term, lock, log,
                    interval, next_run,
                    logins, attempted, checked,
                    booked, tokens, ttl, enable, restarts >>

\* lines 81-85: the first term is taken and locked; a transport error or a
\* provider error list raises
LockTerm ==
    /\ pc = "lock"
    /\ TokenValid(tokens[appointment.account_email], now)
    /\ term' = FirstTerm(terms)
    /\ visits' = <<>>
    /\ terms' = <<>>
    /\ today' = NoDate
    /\ \/ /\ log' = Append(log, Event("lock", term', 0, FALSE))
          /\ pc' = LockResult(FALSE)
          /\ UNCHANGED lock
       \/ \E related \in RelatedVisits :
             /\ log' = Append(log, Event("lock", term', 0, TRUE))
             /\ lock' = [ relatedVisits |-> related, temporaryReservationId |-> 1 ]
             /\ pc' = LockResult(TRUE)
    /\ UNCHANGED << table, credentials, portal, sessions, now, appointments,
                    i, appointment,
                    interval, next_run,
                    logins, attempted, checked,
                    booked, tokens, ttl, enable, restarts >>

\* lines 87-94: a related visit and no permission to move it
MarkError ==
    /\ pc = "related"
    /\ PolicyViolation(lock, appointment)
    /\ appointment' = MarkedError(appointment)
    /\ table' = update_appointment(appointment.id, appointment')
    /\ pc' = "loop"
    /\ UNCHANGED << credentials, portal, sessions, now, appointments, i,
                    visits, terms, term, lock, today, log,
                    interval, next_run,
                    logins, attempted, checked,
                    booked, tokens, ttl, enable, restarts >>

\* line 96: the related visit is moved to the term
ChangeReservation ==
    /\ pc = "related"
    /\ HasRelated(lock)
    /\ appointment.allow_rescheduling
    /\ TokenValid(tokens[appointment.account_email], now)
    /\ \E ok \in BOOLEAN :
          /\ log' = Append(log, Event("reschedule", term,
                                      ExistingReservation(lock), ok))
          /\ booked' = IF ok THEN [booked EXCEPT ![appointment.id] = @ + 1]
                       ELSE booked
          /\ pc' = Confirmed(ok)
    /\ UNCHANGED << table, credentials, portal, sessions, now, appointments,
                    i, appointment, visits, terms, term, lock, today,
                    interval, next_run,
                    logins, attempted, checked,
                    tokens, ttl, enable, restarts >>

\* line 98: a fresh reservation
CreateReservation ==
    /\ pc = "related"
    /\ ~ HasRelated(lock)
    /\ TokenValid(tokens[appointment.account_email], now)
    /\ \E ok \in BOOLEAN :
          /\ log' = Append(log, Event("confirm", term, 0, ok))
          /\ booked' = IF ok THEN [booked EXCEPT ![appointment.id] = @ + 1]
                       ELSE booked
          /\ pc' = Confirmed(ok)
    /\ UNCHANGED << table, credentials, portal, sessions, now, appointments,
                    i, appointment, visits, terms, term, lock, today,
                    interval, next_run,
                    logins, attempted, checked,
                    tokens, ttl, enable, restarts >>

\* lines 100-103: the reservation is written to the table
SaveReserved ==
    /\ pc = "reserved"
    /\ appointment' = MarkedReserved(appointment, term)
    /\ table' = update_appointment(appointment.id, appointment')
    /\ pc' = "notify"
    /\ UNCHANGED << credentials, portal, sessions, now, appointments, i,
                    visits, terms, term, lock, today, log,
                    interval, next_run,
                    logins, attempted, checked,
                    booked, tokens, ttl, enable, restarts >>

\* lines 53-55 and 105-108: the notification, when notifications are on; a
\* failing send raises and ends the cycle
SendNotification ==
    /\ pc = "notify"
    /\ IF enable
       THEN \E ok \in BOOLEAN :
               /\ log' = Append(log, Event("notify", term, 0, ok))
               /\ pc' = Notified(ok)
       ELSE /\ log' = log
            /\ pc' = "loop"
    /\ UNCHANGED << table, credentials, portal, sessions, now, appointments,
                    i, appointment, visits, terms, term, lock, today,
                    interval, next_run,
                    logins, attempted, checked,
                    booked, tokens, ttl, enable, restarts >>

\* the clock advances; it is read by the scan (db.py line 25), by line 114,
\* by the scheduler when hunt_appointments has returned, and by a request
\* to the portal whose token expires within the run, so time that passes
\* anywhere else shows at the next of these
Tick ==
    /\ \/ pc \in {"idle", "noterms"}
       \/ pc = "loop" /\ i = Len(appointments)
       \/ pc \in {"terms", "lock", "related"}
             /\ tokens[appointment.account_email] <= MaxNow
    /\ now < MaxNow
    /\ now' = now + 1
    /\ UNCHANGED << table, credentials, portal, sessions, pc, appointments,
                    i, appointment, visits, terms, term, lock, today, log,
                    interval, next_run,
                    logins, attempted, checked,
                    booked, tokens, ttl, enable, restarts >>

Next ==
    \/ Scan
    \/ ScanFails
    \/ LoopNext
    \/ LoopEnd
    \/ SessionCached
    \/ SessionCreate
    \/ GetTerms
    \/ NoTerms
    \/ LockTerm
    \/ MarkError
    \/ ChangeReservation
    \/ CreateReservation
    \/ SaveReserved
    \/ SendNotification
    \/ Tick

Spec == Init /\ [][Next]_vars

(***************************************************************************)
(* Around the scheduler.                                                   *)
(***************************************************************************)
\* luxmedapi.py lines 80-98: a request finds the token expired and logs in
\* again before it is sent; a failing login raises and nothing is sent
Reauthenticate ==
    /\ \/ pc \in {"terms", "lock"}
       \/ pc = "related" /\ ~ PolicyViolation(lock, appointment)
    /\ ~ TokenValid(tokens[appointment.account_email], now)
    /\ \E ok \in BOOLEAN :
          /\ log' = Append(log, Event("login", NoTerm, 0, ok))
          /\ tokens' = IF ok
                       THEN [tokens EXCEPT ![appointment.account_email] = Expiry(now)]
                       ELSE tokens
          /\ pc' = IF ok THEN pc ELSE Raised
    /\ checked' = [checked EXCEPT ![appointment.id] = now]
    /\ UNCHANGED << table, credentials, portal, sessions, now, appointments,
                    i, appointment, visits, terms, term, lock, today,
                    interval, next_run, logins, attempted, booked, ttl,
                    enable, restarts >>

\* the process is killed, wherever it is, and hunter.py is started again:
\* what the process held is gone, the table and the portal are as they were
Restart ==
    /\ pc # "start"
    /\ restarts < MaxRestarts
    /\ restarts' = restarts + 1
    /\ pc' = "start"
    /\ sessions' = {}
    /\ tokens' = [ email \in Accounts |-> None ]
    /\ logins' = [ email \in Accounts |-> 0 ]
    /\ next_run' = 0
    /\ appointments' = <<>>
    /\ i' = 0
    /\ appointment' = NoAppointment
    /\ visits' = <<>>
    /\ terms' = <<>>
    /\ term' = NoTerm
    /\ lock' = NoLock
    /\ today' = NoDate
    /\ attempted' = <<>>
    /\ log' = << Event("kill", term, 0, lock # NoLock) >>
    /\ UNCHANGED << table, credentials, portal, now, interval, checked,
                    booked, ttl, enable >>

\* every id is taken for new
FreshIds_any(t) == 1..MaxRows

\* db.py line 29: uuid4() gives an id no row has
FreshIds(t) == (1..MaxRows) \ DOMAIN t

\* db.py lines 28-31 on the Appointment of create-appointment.py and of
\* cli.py lines 49-55: the operator's process inserts a row
create_appointment(t, id, email) ==
    [ k \in DOMAIN t \cup {id} |->
        IF k = id THEN Appointment(id, email, PlainQuery, 1, FALSE) ELSE t[k] ]

CreateAppointment ==
    /\ \E id \in FreshIds(table) :
          /\ table' = create_appointment(table, id, "a1")
          /\ checked' = [ k \in DOMAIN table' |->
                            IF k \in DOMAIN checked /\ k # id THEN checked[k] ELSE None ]
          /\ booked' = [ k \in DOMAIN table' |->
                           IF k \in DOMAIN booked /\ k # id THEN booked[k] ELSE 0 ]
    /\ UNCHANGED << credentials, portal, sessions, now, pc, appointments, i,
                    appointment, visits, terms, term, lock, today, log,
                    interval, next_run, logins, attempted, tokens, ttl,
                    enable, restarts >>

\* one request of an account that has credentials, run with --delay 1
InitOne ==
    /\ \E allow \in BOOLEAN :
          table = [ id \in {1} |-> Appointment(1, "a1", PlainQuery, 1, allow) ]
    /\ credentials = Accounts
    /\ portal = PlainTerms
    /\ InitLocals
    /\ interval = 1

\* tokens that last a tick; notifications on or off
InitTokens == InitOne /\ enable \in BOOLEAN /\ ttl = 1

NextTokens == Next \/ Reauthenticate

SpecTokens == InitTokens /\ [][NextTokens]_vars

InitKill == InitOne /\ InitConfig

NextKill == Next \/ Restart

SpecKill == InitKill /\ [][NextKill]_vars

InitCreate == InitOne /\ InitConfig

NextCreate == Next \/ CreateAppointment

SpecCreate == InitCreate /\ [][NextCreate]_vars

(***************************************************************************)
(* The scheduler left running.  The clock has no end: when it would pass   *)
(* MaxNow the epoch is moved on by a second, and every time the program    *)
(* holds moves back with it, so that all comparisons come out the same.    *)
(***************************************************************************)
\* a clock value in ticks, or None, against the epoch a second on; the
\* tokens outlive the run and are left alone
Rebased(v) ==
    IF v = None THEN v
    ELSE IF v < TicksPerSec THEN 0 ELSE v - TicksPerSec

\* an Appointment against the epoch a second on
RebasedRow(a) == [a EXCEPT !.next_check = IF @ = 0 THEN 0 ELSE @ - 1]

\* the steps of the program: every action but the clock
Program ==
    \/ Scan
    \/ ScanFails
    \/ LoopNext
    \/ LoopEnd
    \/ SessionCached
    \/ SessionCreate
    \/ GetTerms
    \/ NoTerms
    \/ LockTerm
    \/ MarkError
    \/ ChangeReservation
    \/ CreateReservation
    \/ SaveReserved
    \/ SendNotification

\* the clock advances where Tick lets it, without end
Elapse ==
    /\ \/ pc \in {"idle", "noterms"}
       \/ pc = "loop" /\ i = Len(appointments)
    /\ IF now < MaxNow
       THEN /\ now' = now + 1
            /\ UNCHANGED << table, appointments, appointment, next_run, checked >>
       ELSE /\ now' = now + 1 - TicksPerSec
            /\ table' = [ id \in Ids |-> RebasedRow(table[id]) ]
            /\ appointments' = [ k \in 1..Len(appointments) |-> RebasedRow(appointments[k]) ]
            /\ appointment' = RebasedRow(appointment)
            /\ next_run' = Rebased(next_run)
            /\ checked' = [ id \in Ids |-> Rebased(checked[id]) ]
    /\ UNCHANGED << credentials, portal, sessions, pc, i, visits, terms, term,
                    lock, today, log, interval, logins, attempted,
                    booked, tokens, ttl, enable, restarts >>

InitLive == InitOne /\ InitConfig

NextLive == Program \/ Elapse

\* run_scheduler is one thread that never waits but in sleep(1): a step of
\* the program that can be taken is taken, and the clock goes on
SpecLive == InitLive /\ [][NextLive]_vars /\ WF_vars(Program) /\ WF_vars(Elapse)

(***************************************************************************)
(* Properties.                                                             *)
(***************************************************************************)
PortalOps == { "login", "search", "lock", "confirm", "reschedule" }

\* the step makes a Portal Client call for request id
CallsPortalFor(id) ==
    /\ Len(log') > Len(log)
    /\ log'[Len(log')].op \in PortalOps
    /\ log'[Len(log')].id = id

\* the request of the running cycle, as persisted
Persisted == table[appointment.id]

\* C1: in every persisted state a request is Reserved exactly when its term
\* is set.
C1_ReservedIffTerm ==
    \A id \in Ids : (table[id].status = reserved) <=> (table[id].term # Null)

C1_Witness ==
    \E id \in Ids : table[id].status = reserved /\ table[id].term # Null

\* C2: the rows the due scan returned never include a Reserved request,
\* however long ago its next_check was.
C2_ScanSkipsReserved ==
    \A k \in 1..Len(appointments) : appointments[k].status # reserved

C2_Witness ==
    /\ pc = "loop"
    /\ i = 0
    /\ \E id \in Ids : /\ table[id].status = reserved
                       /\ table[id].next_check * TicksPerSec < now

\* C3: once a request is persisted as Reserved, no step makes a Portal
\* Client call for it or changes its persisted record.
C3_ReservedAbsorbing ==
    [][ \A id \in Ids :
          table[id].status = reserved =>
              /\ id \in DOMAIN table'
              /\ table'[id] = table[id]
              /\ ~ CallsPortalFor(id) ]_vars

C3_Witness ==
    /\ pc = "terms"
    /\ \E id \in Ids : table[id].status = reserved /\ id # appointment.id

\* C4: once a request is persisted as Error, no step makes a Portal Client
\* call for it or changes its persisted record.
C4_ErrorTerminal ==
    [][ \A id \in Ids :
          table[id].status = error =>
              /\ id \in DOMAIN table'
              /\ table'[id] = table[id]
              /\ ~ CallsPortalFor(id) ]_vars

\* the events of the cycle that are calls of one of ops
Called(events, ops) == \E k \in 1..Len(events) : events[k].op \in ops

\* C5: a successful search with no qualifying term leaves status and term
\* as persisted, persists next_check = whole seconds of now +
\* check_frequency, and the cycle ends without lock, confirm or reschedule.
C5_NoTermsPostpones ==
    [][ pc = "noterms" /\ pc' # "noterms" =>
          /\ pc' = "loop"
          /\ table'[appointment.id].status = Persisted.status
          /\ table'[appointment.id].term = Persisted.term
          /\ table'[appointment.id].next_check
                 = (now \div TicksPerSec) + Persisted.check_frequency
          /\ ~ Called(log', {"lock", "confirm", "reschedule"}) ]_vars

C5_Witness ==
    /\ pc = "loop"
    /\ Len(log) > 0
    /\ log[Len(log)].op = "search"
    /\ log[Len(log)].ok
    /\ Persisted.next_check * TicksPerSec > now

\* C6: the term that is locked starts no later than any other qualifying
\* term of the answer, whatever the order of the answer.
C6_LocksEarliest ==
    [][ pc = "lock" /\ pc' # "lock" =>
          \A k \in 1..Len(terms) :
             ~ Before(terms[k].dateTimeFrom, term'.dateTimeFrom) ]_vars

\* C7: a lock with related visits for a request that may not be rescheduled
\* ends the cycle with Error, next_check 0 and no term persisted, and with no
\* confirm, reschedule or notification.
C7_PolicyViolation ==
    [][ /\ pc = "related"
        /\ Len(lock.relatedVisits) > 0
        /\ ~ appointment.allow_rescheduling
        => /\ pc' = "loop"
           /\ table'[appointment.id].status = error
           /\ table'[appointment.id].next_check = 0
           /\ table'[appointment.id].term = Null
           /\ ~ Called(log', {"confirm", "reschedule", "notify"}) ]_vars

C7_Witness ==
    /\ pc = "loop"
    /\ Len(log) > 0
    /\ log[Len(log)].op = "lock"
    /\ log[Len(log)].ok
    /\ Len(lock.relatedVisits) > 0
    /\ Persisted.status = error

\* C8: a lock with related visits for a request that may be rescheduled is
\* followed by a reschedule of the first related visit to the locked term,
\* never by a confirm, and its success persists Reserved with the snapshot
\* of that term.
C8_Reschedule ==
    [][ /\ pc = "related" /\ Len(lock.relatedVisits) > 0
           /\ appointment.allow_rescheduling
           => /\ log' = Append(log, [ op |-> "reschedule", id |-> appointment.id,
                                      term |-> log[Len(log)].term,
                                      existing |-> lock.relatedVisits[1],
                                      ok |-> pc' = "reserved" ])
              /\ pc' \in {"reserved", "loop"}
        /\ pc = "reserved" /\ Len(lock.relatedVisits) > 0
           => /\ ~ Called(log', {"confirm"})
              /\ table'[appointment.id].status = reserved
              /\ table'[appointment.id].term
                    = [ log[Len(log)].term EXCEPT
                          !.dateTimeFrom = [str |-> @] ] ]_vars

C8_Witness ==
    /\ pc = "notify"
    /\ Called(log, {"reschedule"})
    /\ Len(lock.relatedVisits) > 1
    /\ Persisted.status = reserved
    /\ Persisted.term # Null

\* the step locks a term
Locks == Len(log') > Len(log) /\ log'[Len(log')].op = "lock"

Locked == log'[Len(log')].term

\* C9: every term that is locked satisfies the filter of its request: the
\* doctor is in the allow-list when there is one and not in the blacklist,
\* the facility is in the allow-list when there is one, and the hour of the
\* start is within [after_hour, before_hour] where these are given.
C9_LockedTermQualifies ==
    [][ Locks =>
          LET q == Persisted.query
          IN  /\ q.doctor_ids # {} => Locked.doctorId \in q.doctor_ids
              /\ Locked.doctorId \notin q.doctor_blacklist_ids
              /\ q.facilities_ids # {} => Locked.clinicGroupId \in q.facilities_ids
              /\ q.after_hour # None => q.after_hour <= Locked.dateTimeFrom.hour
              /\ q.before_hour # None => Locked.dateTimeFrom.hour <= q.before_hour
      ]_vars

\* the answer starts with a blacklisted doctor's term, the earliest of the
\* answer, and another term is about to be locked
C9_Witness ==
    /\ pc = "lock"
    /\ Len(visits) > 1
    /\ visits[1].doctorId \in appointment.query.doctor_blacklist_ids
    /\ \A k \in 2..Len(visits) :
          Before(visits[1].dateTimeFrom, visits[k].dateTimeFrom)
    /\ terms[1] # visits[1]

\* the start of the window of query q when the search runs at td
WindowStart(q, td) ==
    IF q.start_date # None THEN [day |-> q.start_date, hour |-> 0] ELSE td

InWindow(t, q, td) ==
    LET from == WindowStart(q, td)
        to == [from EXCEPT !.day = @ + q.lookup_time_days]
    IN  /\ ~ Before(t.dateTimeFrom, from)
        /\ ~ Before(to, t.dateTimeFrom)

\* C10: a term that is locked starts within [startDate, startDate +
\* lookup_time_days], startDate being today when unset; an answer with no
\* term in that window takes the zero-slot branch.
C10_LockedTermInWindow ==
    [][ /\ Locks => InWindow(Locked, Persisted.query, today)
        /\ pc = "terms" /\ pc' \in {"lock", "noterms"}
              /\ (\A k \in 1..Len(visits') :
                     ~ InWindow(visits'[k], Persisted.query, today'))
           => pc' = "noterms" ]_vars

\* lookup_time_days = 14, start_date unset, the answer is D+20 then D+5, and
\* D+5 is about to be locked
C10_Witness ==
    /\ pc = "lock"
    /\ appointment.query.start_date = None
    /\ appointment.query.lookup_time_days = 14
    /\ Len(visits) = 2
    /\ visits[1].dateTimeFrom.day = today.day + 20
    /\ visits[2].dateTimeFrom.day = today.day + 5
    /\ terms = << visits[2] >>

\* the positions of a cycle, between the loop taking an appointment and the
\* loop taking over again
CyclePcs == { "session", "terms", "noterms", "lock", "related", "reserved", "notify" }

\* the step is a cycle raising: a call that fails, or no credentials
CycleRaises ==
    /\ pc \in CyclePcs
    /\ \/ Len(log') > Len(log) /\ ~ log'[Len(log')].ok
       \/ pc = "session" /\ pc' # "terms" /\ log' = log

\* the ids of a batch, in the order of the batch
BatchIds(batch) == [ k \in 1..Len(batch) |-> batch[k].id ]

PortalCallFailed ==
    \E k \in 1..Len(log) : log[k].op \in PortalOps /\ ~ log[k].ok

\* C12: from the failure of a Portal Client call (login, search, lock,
\* confirm, reschedule) until the loop takes the next request, the persisted
\* record of the request, its status, next_check and term with it, is the
\* record the scan of the batch read.
C12_FailureKeepsRecord ==
    pc \in CyclePcs \cup {"loop"} /\ i > 0 /\ PortalCallFailed =>
        table[appointment.id] = appointments[i]

\* the portal has rejected the lock of a term that was due and found
C12_Witness ==
    /\ pc = "loop"
    /\ Len(log) = 2
    /\ log[1].op = "search" /\ log[1].ok
    /\ log[2].op = "lock" /\ ~ log[2].ok
    /\ Persisted.status = active
    /\ Persisted.term = Null
    /\ Persisted.next_check * TicksPerSec < now

\* C13: a persisted status becomes Error only by the step that follows a
\* lock with related visits for a request that may not be rescheduled; no
\* other step of any cycle writes Error.
C13_ErrorOnlyByPolicy ==
    [][ \A id \in Ids :
          table[id].status # error /\ table'[id].status = error =>
              /\ pc = "related"
              /\ appointment.id = id
              /\ Len(lock.relatedVisits) > 0
              /\ ~ table[id].allow_rescheduling
              /\ log[Len(log)].op = "lock" /\ log[Len(log)].ok ]_vars

\* a request that may not be rescheduled has been set to Error in a batch
\* that is over
C13_Witness ==
    /\ pc = "idle"
    /\ \E id \in Ids : /\ table[id].status = error
                       /\ ~ table[id].allow_rescheduling
                       /\ checked[id] # None

\* the step is the due scan returning its rows
Scans == pc \in {"start", "idle"} /\ pc' = "loop"

\* C14: the due scan returns exactly the requests that are not Reserved and
\* whose next_check is at or before the clock of the scan; a request whose
\* next_check equals the clock is returned.
C14_DueAtOrBeforeNow ==
    [][ Scans =>
          Range(BatchIds(appointments'))
              = { id \in Ids : /\ table[id].status # reserved
                               /\ table[id].next_check * TicksPerSec <= now }
      ]_vars

\* the step is hunt_appointments leaving its loop
LeavesLoop == pc = "loop" /\ pc' \notin {"loop", "session"}

StartsCheck(id) == CallsPortalFor(id) /\ ~ Called(log, PortalOps)

\* C16: a check of an Active request comes at least check_frequency seconds
\* after the previous check of that request, whatever that check ended in.
C16_MinimumInterval ==
    [][ \A id \in Ids :
          StartsCheck(id) /\ table[id].status = active /\ checked[id] # None =>
              now - checked[id] >= table[id].check_frequency * TicksPerSec
      ]_vars

\* the step is the due scan raising
ScanRaises ==
    /\ Pending
    /\ now' = now
    /\ pc' # "loop"
    /\ log' = << [ op |-> "scan", id |-> 0, term |-> NoTerm, existing |-> 0,
                   ok |-> FALSE ] >>

\* the step is hunt_appointments returning
Returns == LeavesLoop \/ ScanRaises

\* C17: with an interval, hunt_appointments is called first thing, then
\* whenever the interval has passed since it last returned and not before,
\* and whatever raises in it (a cycle, the due scan) the scheduler goes on
\* polling: it never returns.
C17_RunsForever ==
    [][ interval # None =>
          /\ pc' # "done"
          /\ pc = "start" => Scans \/ ScanRaises
          /\ pc = "idle" /\ (Scans \/ ScanRaises) => now >= next_run
          /\ pc = "idle" /\ now >= next_run => ENABLED Scan
          /\ Returns => /\ pc' = "idle"
                        /\ next_run' = now + interval * TicksPerSec
          /\ CycleRaises => pc' = "loop"
          /\ next_run' # next_run => Returns
      ]_vars

\* two runs have returned, the second by a raising scan, an interval has
\* passed and the third run is pending
C17_Witness ==
    /\ interval = 1
    /\ pc = "idle"
    /\ log # <<>>
    /\ log[1].op = "scan"
    /\ next_run >= TicksPerSec + 2 * interval * TicksPerSec
    /\ now >= next_run
    /\ \E id \in Ids : checked[id] # None

\* C18: no account ever has a second session created for it; the cache
\* holds exactly the accounts a session was created for and never loses
\* one; a session is created only in the cycle of a request of that account
\* that finds none cached, and a cycle that finds one cached does not log in.
C18_OneSessionPerAccount ==
    [][ /\ \A email \in Accounts :
             /\ logins'[email] <= 1
             /\ email \in sessions' <=> logins'[email] = 1
             /\ logins'[email] # logins[email] =>
                   /\ pc = "session"
                   /\ appointment.account_email = email
                   /\ table[appointment.id].account_email = email
                   /\ IsDue(appointments[i], now)
                   /\ email \notin sessions
        /\ sessions \subseteq sessions'
        /\ pc = "session" /\ appointment.account_email \in sessions =>
              pc' = "terms" /\ log' = log /\ logins' = logins
      ]_vars

\* the second request of the account runs on the session the first request
\* of the batch created
C18_Witness ==
    /\ pc = "terms"
    /\ attempted = << 1, 2 >>
    /\ appointment.account_email = "a1"
    /\ log = <<>>
    /\ logins["a1"] = 1
    /\ checked[1] = now

\* the step is _get_session raising
SessionRaises == pc = "session" /\ pc' # "terms"

\* C19: when _get_session raises (no credentials row, or the login fails)
\* the table and the session cache are as they were, no session counts as
\* created, the loop goes on with the batch as it was, and the next cycle of
\* a request of that account tries to create the session again.
C19_SessionFailureConfined ==
    [][ /\ SessionRaises =>
           /\ table' = table
           /\ sessions' = sessions
           /\ logins' = logins
           /\ pc' = "loop"
           /\ appointments' = appointments /\ i' = i
        /\ pc = "session" /\ logins[appointment.account_email] = 0 =>
              \/ SessionRaises
              \/ /\ log' = Append(log, Event("login", NoTerm, 0, TRUE))
                 /\ sessions' = sessions \cup {appointment.account_email}
      ]_vars

\* the login of the first request has failed, nothing is cached and the
\* second request of the batch is still to be taken
C19_Witness ==
    /\ pc = "loop"
    /\ i = 1
    /\ Len(appointments) = 2
    /\ Len(log) = 1
    /\ log[1].op = "login" /\ ~ log[1].ok
    /\ sessions = {}
    /\ table[1] = appointments[1]

\* C20: a due scan that raises is not swallowed: with an interval, the
\* exception leaves hunt_appointments and the scheduler stops polling.
C20_ScanFailureHalts ==
    [][ interval # None /\ ScanRaises => pc' \notin {"idle", "loop"} ]_vars

\* the step opens a batch: the loop stands before the first of the rows
BatchOpens == pc # "loop" /\ pc' = "loop" /\ i' = 0

\* the step opens a cycle: the loop hands out a request
CycleOpens == pc # "session" /\ pc' = "session"

\* C21: a batch is opened only when hunt_appointments is not running, so no
\* batch overlaps another however long it takes; a cycle is opened only by
\* the loop, when the cycle before it is over; and while a cycle runs it is
\* the cycle of one request, the last the loop has handed out.
C21_OneCycleAtATime ==
    [][ /\ BatchOpens =>
           /\ pc \in {"start", "idle"}
           /\ appointment = NoAppointment
           /\ attempted = <<>>
        /\ CycleOpens =>
           /\ pc = "loop"
           /\ i' = i + 1
           /\ attempted' = Append(attempted, appointment'.id)
        /\ pc \in CyclePcs /\ pc' \in CyclePcs =>
           /\ appointment'.id = appointment.id
           /\ i' = i
           /\ appointments' = appointments
      ]_vars

\* the second batch of a scheduler has been running for longer than the
\* interval: the job is overdue, and the cycle goes on
C21_Witness ==
    /\ pc = "noterms"
    /\ interval # None
    /\ next_run > 0
    /\ now >= next_run + interval * TicksPerSec
    /\ appointment.id = appointments[i].id

\* the step tries to send the notification
Notifies == Len(log') > Len(log) /\ log'[Len(log')].op = "notify"

\* the last call of the running cycle is a confirm or a reschedule that the
\* portal has accepted
ReservationMade ==
    /\ Len(log) > 0
    /\ log[Len(log)].op \in {"confirm", "reschedule"}
    /\ log[Len(log)].ok

\* C22: the step that follows an accepted confirm or reschedule writes the
\* row with status Reserved, next_check 0 and the snapshot of the term, and
\* sends nothing; the notification is sent only then, for a row that is
\* persisted as Reserved with that term, in a cycle that found terms, did not
\* set Error and had no call fail.
C22_PersistThenNotify ==
    [][ /\ ReservationMade /\ pc \in CyclePcs \ {"notify"} =>
           /\ pc = "reserved"
           /\ table' = [table EXCEPT ![appointment.id] =
                          [appointments[i] EXCEPT !.status = reserved,
                                                  !.next_check = 0,
                                                  !.term = Snapshot(term)]]
           /\ log' = log
           /\ pc' = "notify"
        /\ Notifies =>
           /\ pc = "notify"
           /\ ReservationMade
           /\ log'[Len(log')].term = term
           /\ Persisted.status = reserved
           /\ Persisted.next_check = 0
           /\ Persisted.term = Snapshot(term)
           /\ Persisted # appointments[i]
           /\ table' = table
           /\ ~ PortalCallFailed
           /\ \E k \in 1..Len(log) : log[k].op = "lock" /\ log[k].ok /\ log[k].term = term
      ]_vars

\* the notification of a reservation has gone out and the loop has taken over
C22_Witness ==
    /\ pc = "loop"
    /\ Len(log) > 1
    /\ log[Len(log)].op = "notify" /\ log[Len(log)].ok
    /\ log[Len(log) - 1].op \in {"confirm", "reschedule"}
    /\ Persisted.status = reserved
    /\ Persisted.term = Snapshot(term)

\* the step makes the call `op` of the Portal Client
Calls(op) == Len(log') > Len(log) /\ log'[Len(log')].op = op

\* the lock of the running cycle has been granted and nothing was done since
LockGranted ==
    /\ pc = "related"
    /\ log[Len(log)].op = "lock"
    /\ log[Len(log)].ok

\* C23: the step that follows a granted lock is create_reservation exactly
\* when the lock has no related visit, change_reservation exactly when it has
\* one and the request allows rescheduling, and neither when it has one and
\* the request does not; no cycle makes both calls.
C23_ReservationCall ==
    [][ /\ LockGranted /\ pc' # pc =>
           /\ Calls("confirm") <=> Len(lock.relatedVisits) = 0
           /\ Calls("reschedule") <=>
                 Len(lock.relatedVisits) > 0 /\ appointment.allow_rescheduling
        /\ Calls("confirm") \/ Calls("reschedule") => LockGranted
        /\ ~ (Called(log', {"confirm"}) /\ Called(log', {"reschedule"}))
      ]_vars

\* a request that allows rescheduling got a lock without related visits and
\* its reservation was created, not changed
C23_Witness ==
    /\ pc = "reserved"
    /\ appointment.allow_rescheduling
    /\ lock # NoLock
    /\ Len(lock.relatedVisits) = 0
    /\ log[Len(log)].op = "confirm"
    /\ ~ Called(log, {"reschedule"})

\* the requests of the Portal Client that go through _get and _post
RequestOps == { "search", "lock", "confirm", "reschedule" }

\* the step sends a request to the portal
Sends == Len(log') > Len(log) /\ log'[Len(log')].op \in RequestOps

\* the token of the account of the running cycle is there and has not expired
TokenFresh ==
    /\ tokens[appointment.account_email] # None
    /\ now < tokens[appointment.account_email]

\* the step is the client logging in again in front of a request
LogsInAgain == pc \in {"terms", "lock", "related"} /\ Calls("login")

\* C24: a request is sent only with a token that has not expired; where a
\* request is due and the token has expired, the client logs in first; a
\* login that succeeds leaves a fresh token and the cycle where it was, a
\* login that fails sends nothing, leaves the token as it was, expired, and
\* the row as it was, and hands over to the loop with the rest of the batch.
C24_TokenRefresh ==
    [][ /\ Sends => TokenFresh
        /\ pc \in {"terms", "lock", "related"} /\ ~ TokenFresh /\ log' # log =>
              LogsInAgain
        /\ LogsInAgain =>
              /\ ~ TokenFresh
              /\ table' = table
              /\ IF log'[Len(log')].ok
                 THEN /\ pc' = pc
                      /\ tokens'[appointment.account_email] # None
                      /\ now < tokens'[appointment.account_email]
                 ELSE /\ tokens' = tokens
                      /\ pc' = "loop"
                      /\ i' = i
                      /\ appointments' = appointments
      ]_vars

\* the token ran out between the search and the lock: the client has logged
\* in again and the lock went out after that
C24_Witness ==
    /\ Len(log) = 4
    /\ log[1].op = "login"
    /\ log[2].op = "search"
    /\ log[3].op = "login" /\ log[3].ok
    /\ log[4].op = "lock"
    /\ TokenFresh

\* row `new` is row `old` but for status, next_check and term
SameButOutcome(old, new) ==
    [new EXCEPT !.status = old.status,
                !.next_check = old.next_check,
                !.term = old.term] = old

\* C25: no step of the scheduler adds a row to the table or takes one away;
\* a row changes only in a step of the cycle of that row, and then in
\* nothing but status, next_check and term.
C25_WritesOwnOutcomeOnly ==
    [][ /\ DOMAIN table' = DOMAIN table
        /\ \A id \in Ids :
              table'[id] # table[id] =>
                 /\ pc \in CyclePcs
                 /\ appointment.id = id
                 /\ SameButOutcome(table[id], table'[id])
      ]_vars

\* two batches on: request 1 is reserved, request 2 was put off, and both
\* rows are otherwise what the operator made them
C25_Witness ==
    /\ pc = "idle"
    /\ DOMAIN table = {1, 2}
    /\ table[1].status = reserved
    /\ table[2].status = active /\ table[2].next_check > 0
    /\ \E email \in Accounts, allow1, allow2 \in BOOLEAN :
          /\ SameButOutcome(Appointment(1, "a1", PlainQuery, 1, allow1), table[1])
          /\ SameButOutcome(Appointment(2, email, PlainQuery, 2, allow2), table[2])

\* the step is the process being killed and hunter.py started again
Killed == restarts' = restarts + 1

\* C26: when the process is killed after the lock was granted (or after the
\* confirm or reschedule was accepted) and before the row is written as
\* Reserved, nothing is rolled back or written: the row is Active with the
\* next_check it had, and it is due for the scan of the run that follows.
C26_InterruptedStaysActive ==
    [][ Killed /\ pc \in {"related", "reserved"} =>
           /\ table' = table
           /\ table'[appointment.id].status = active
           /\ table'[appointment.id].next_check = appointments[i].next_check
           /\ IsDue(table'[appointment.id], now')
           /\ pc' = "start"
      ]_vars

\* the step is the operator's create_appointment
Creates == DOMAIN table' # DOMAIN table

\* C27: create_appointment adds one row under an id no row had and leaves
\* the rows there were as they are; the new row carries that id, status
\* Active, next_check 0 and no term, which makes it due; and the scan of the
\* run that follows returns every row no cycle has checked yet, the new one
\* with them.
C27_CreatedIsDue ==
    [][ /\ Creates =>
           \E id \in DOMAIN table' \ DOMAIN table :
              /\ DOMAIN table' = DOMAIN table \cup {id}
              /\ table'[id].id = id
              /\ table'[id].status = active
              /\ table'[id].next_check = 0
              /\ table'[id].term = Null
              /\ IsDue(table'[id], now')
        /\ \A id \in DOMAIN table :
              /\ id \in DOMAIN table'
              /\ table'[id] # table[id] => pc \in CyclePcs /\ appointment.id = id
        /\ Scans =>
              \A id \in Ids :
                 checked[id] = None =>
                    \E k \in 1..Len(appointments') : appointments'[k] = table[id]
      ]_vars

\* the operator has created request 2 after the first batch and the scan of
\* the next run has returned it
C27_Witness ==
    /\ pc = "loop"
    /\ DOMAIN table = {1, 2}
    /\ checked[1] # None
    /\ table[1].next_check > 0
    /\ now > checked[1]
    /\ attempted = <<>>
    /\ checked[2] = None
    /\ \E k \in 1..Len(appointments) :
          /\ appointments[k].id = 2
          /\ appointments[k].status = active
          /\ appointments[k].next_check = 0
          /\ appointments[k].term = Null

\* C28: with every write reaching the table and the process running on, the
\* portal accepts at most one confirm or reschedule for a request, however
\* many batches follow.
C28_BookedOnce ==
    \A id \in Ids : booked[id] <= 1

\* a request was booked in an earlier batch, and a later scan has come back
\* without it
C28_Witness ==
    /\ pc = "loop"
    /\ \E id \in Ids :
          /\ booked[id] = 1
          /\ table[id].status = reserved
          /\ now > checked[id]
          /\ \A k \in 1..Len(appointments) : appointments[k].id # id

\* the step calls create_reservation or change_reservation
Reserves == Calls("confirm") \/ Calls("reschedule")

\* C29: create_reservation and change_reservation are called only as the
\* call next after a lock that was granted in the same cycle, with the lock
\* that call returned and for the term that was locked; a cycle in which the
\* search or the lock has failed calls neither.
C29_ReserveAfterLock ==
    [][ /\ Reserves =>
           /\ Len(log) > 1
           /\ log[Len(log)].op = "lock"
           /\ log[Len(log)].ok
           /\ log[Len(log)].id = appointment.id
           /\ log[Len(log)].term = log'[Len(log')].term
           /\ log'[Len(log')].id = appointment.id
           /\ term = log[Len(log)].term
           /\ lock # NoLock
           /\ \A k \in 1..Len(log) : log[k].ok
        /\ (\E k \in 1..Len(log') :
               log'[k].op \in {"search", "lock"} /\ ~ log'[k].ok) =>
           ~ Called(log', {"confirm", "reschedule"})
      ]_vars

\* the lock of a term came back with two related visits and the request
\* allows rescheduling: the change went out for the term that was locked
C29_Witness ==
    /\ Len(log) > 2
    /\ log[Len(log) - 1].op = "lock" /\ log[Len(log) - 1].ok
    /\ log[Len(log)].op = "reschedule"
    /\ log[Len(log)].term = log[Len(log) - 1].term
    /\ Len(lock.relatedVisits) = 2
    /\ lock.temporaryReservationId = 1

\* the step is a notification that could not be sent
NotifyFails == Notifies /\ ~ log'[Len(log')].ok

\* C30: a notification that fails leaves the table as it is, the row of the
\* request Reserved with next_check 0 and the snapshot of its term, and hands
\* over to the loop with the batch, the position in it and the requests taken
\* so far as they were.
C30_NotifyFailureConfined ==
    [][ NotifyFails =>
           /\ table' = table
           /\ table'[appointment.id].status = reserved
           /\ table'[appointment.id].next_check = 0
           /\ table'[appointment.id].term = Snapshot(term)
           /\ pc' = "loop"
           /\ i' = i
           /\ appointments' = appointments
           /\ attempted' = attempted
      ]_vars

\* the notification for request 1 has failed, its row is Reserved, and
\* request 2 of the batch is still to be taken by the loop
C30_Witness ==
    /\ pc = "loop"
    /\ Len(log) > 0
    /\ log[Len(log)].op = "notify" /\ ~ log[Len(log)].ok
    /\ Persisted.status = reserved
    /\ Persisted.next_check = 0
    /\ Persisted.term # Null
    /\ i < Len(appointments)

\* C32: every row of the table whose status is Reserved or Error has
\* next_check 0.
C32_TerminalNextCheckZero ==
    \A id \in Ids :
       table[id].status \in {reserved, error} => table[id].next_check = 0

\* the step is one of a run in which session creation, search, lock, confirm
\* and reschedule succeed, every search finds a term, no lock comes back with
\* a related visit and the table answers the scan
Favourable ==
    /\ Len(log') > Len(log) /\ log'[Len(log')].op \in PortalOps => log'[Len(log')].ok
    /\ ~ SessionRaises
    /\ ~ ScanRaises
    /\ pc' = "noterms" => pc = "noterms"
    /\ pc' = "related" => Len(lock'.relatedVisits) = 0

====
